---- MODULE Spec2Model ----
(***************************************************************************)
(* Model of pkg/reconciler/common/kubernetes_min_version.go:               *)
(* KubernetesMinVersionTransform (the factory and the two closures it      *)
(* returns) and applyMinVersionEnvVar, together with the library calls     *)
(* they make on the unstructured document (scheme.Scheme.Convert in both   *)
(* directions, SetCreationTimestamp) and the test helper hasEnv.           *)
(***************************************************************************)
EXTENDS Naturals, Sequences, FiniteSets, TLC

\* ------------------------------------------------------------------ bounds
\* containers plus init containers of a pod template
MaxContainers == 2
\* env entries of a pod template, over all its containers
MaxEntries == 2
\* calls of the transformer on one document
MaxCalls == 2
\* concurrent specification: containers plus env entries of a document
ConcSize == 2
\* concurrent specification: calls of the transformer on one document
ConcCalls == 1

\* --------------------------------------------------------------- constants
KubernetesMinVersionKey == "KUBERNETES_MIN_VERSION"

\* the case labels of the closure's switch
SupportedKindsAndConfigMap ==
  {"Deployment", "StatefulSet", "DaemonSet", "Job", "ConfigMap"}
SupportedKinds == {"Deployment", "StatefulSet", "DaemonSet", "Job"}

\* kinds of the documents handed to the transformer
Kinds == {"Deployment", "StatefulSet", "DaemonSet", "Job", "ConfigMap"}

\* values of the process environment variable; "" is unset or empty
EnvValues == {"", "v1.25.0", "v1.26.0"}

\* env entries a document may carry before any call
DocEntries ==
  { [Name |-> KubernetesMinVersionKey, Value |-> "v1.20.0"],
    [Name |-> "EXISTING", Value |-> "1"] }

\* metadata.creationTimestamp of an unstructured document: the field is
\* missing, present as null, or a time
Timestamps == {"absent", "null", "2026-01-01T00:00:00Z"}

\* ----------------------------------------------------------------- helpers
SeqsUpTo(S, n) == UNION { [1..k -> S] : k \in 0..n }

MkContainers(prefix, envs) ==
  [i \in 1..Len(envs) |-> [Name |-> <<prefix, i>>, Env |-> envs[i]]]

RECURSIVE Entries(_)
Entries(envs) ==
  IF envs = <<>> THEN 0 ELSE Len(Head(envs)) + Entries(Tail(envs))

\* pod templates of at most maxC containers and init containers carrying at
\* most maxE env entries: the first k env lists are the containers' ones
PodSpecs(maxC, maxE) ==
  { [Containers |-> MkContainers("container", SubSeq(p[1], 1, p[2])),
     InitContainers |-> MkContainers("init", SubSeq(p[1], p[2] + 1, Len(p[1])))] :
      p \in { q \in { envs \in SeqsUpTo(SeqsUpTo(DocEntries, maxE), maxC) :
                        Entries(envs) <= maxE } \X (0..maxC) :
                q[2] <= Len(q[1]) } }

EmptyPodSpec == [Containers |-> <<>>, InitContainers |-> <<>>]

\* unstructured documents: valid = FALSE is a document whose content does
\* not match the typed shape of its kind (no pod template can be read)
Documents(maxC, maxE) ==
  { [kind |-> k, name |-> "controller", namespace |-> "knative-serving",
     creationTimestamp |-> ts, status |-> st, valid |-> v, template |-> p] :
      k \in Kinds, ts \in Timestamps, st \in {"absent", "empty"},
      v \in BOOLEAN, p \in PodSpecs(maxC, maxE) } \
  { doc \in
      [kind : Kinds, name : {"controller"}, namespace : {"knative-serving"},
       creationTimestamp : Timestamps, status : {"absent", "empty"},
       valid : {FALSE}, template : PodSpecs(maxC, maxE)] :
      doc.template # EmptyPodSpec }

NilTyped ==
  [type |-> "nil", name |-> "", namespace |-> "", CreationTimestamp |-> "zero",
   Status |-> "zero", PodSpec |-> EmptyPodSpec]

\* ------------------------------------------------------------ pure pieces
GetKind(doc) == doc.kind

\* the factory's test of the override value
OverrideDisabledNever(minVersion) == FALSE
OverrideDisabled(minVersion) == minVersion = ""

\* the captured override list
MinVersionEnv(minVersion) ==
  << [Name |-> KubernetesMinVersionKey, Value |-> minVersion] >>

\* the factory: which closure is returned and what it captured
KubernetesMinVersionTransform(osEnv) ==
  IF OverrideDisabled(osEnv)
    THEN [closure |-> "noop", minVersionEnv |-> <<>>]
    ELSE [closure |-> "inject", minVersionEnv |-> MinVersionEnv(osEnv)]

\* index of the first entry of envs named name, 0 if there is none
FirstIndex(envs, name) ==
  IF \E i \in 1..Len(envs) : envs[i].Name = name
    THEN CHOOSE i \in 1..Len(envs) :
           /\ envs[i].Name = name
           /\ \A j \in 1..(i - 1) : envs[j].Name # name
    ELSE 0

\* merge of one override entry into a target list
MergeOne(tgt, o) ==
  IF FirstIndex(tgt, o.Name) > 0
    THEN [tgt EXCEPT ![FirstIndex(tgt, o.Name)].Value = o.Value]
    ELSE Append(tgt, o)

RECURSIVE mergeEnv(_, _)
mergeEnv(src, tgt) ==
  IF src = <<>> THEN tgt ELSE mergeEnv(Tail(src), MergeOne(tgt, Head(src)))

\* applyMinVersionEnvVar hands mergeEnv a pointer to the captured list and a
\* pointer to each container's list; the result is the pod spec and the
\* captured list as the calls leave them
MergeContainers(cs, minVersionEnv) ==
  [i \in 1..Len(cs) |-> [cs[i] EXCEPT !.Env = mergeEnv(minVersionEnv, cs[i].Env)]]

AppendContainers(cs, minVersionEnv) ==
  [i \in 1..Len(cs) |-> [cs[i] EXCEPT !.Env = cs[i].Env \o minVersionEnv]]
PrependContainers(cs, minVersionEnv) ==
  [i \in 1..Len(cs) |->
     [cs[i] EXCEPT !.Env =
        minVersionEnv \o
        SelectSeq(cs[i].Env, LAMBDA e : e.Name # KubernetesMinVersionKey)]]
AssignContainers(cs, minVersionEnv) ==
  [i \in 1..Len(cs) |-> [cs[i] EXCEPT !.Env = minVersionEnv]]

applyMinVersionEnvVarAppend(podSpec, minVersionEnv) ==
  [podSpec |-> [Containers |-> AppendContainers(podSpec.Containers, minVersionEnv),
                InitContainers |-> AppendContainers(podSpec.InitContainers, minVersionEnv)],
   minVersionEnv |-> minVersionEnv]
applyMinVersionEnvVarPrepend(podSpec, minVersionEnv) ==
  [podSpec |-> [Containers |-> PrependContainers(podSpec.Containers, minVersionEnv),
                InitContainers |-> PrependContainers(podSpec.InitContainers, minVersionEnv)],
   minVersionEnv |-> minVersionEnv]
applyMinVersionEnvVarAssign(podSpec, minVersionEnv) ==
  [podSpec |-> [Containers |-> AssignContainers(podSpec.Containers, minVersionEnv),
                InitContainers |-> AssignContainers(podSpec.InitContainers, minVersionEnv)],
   minVersionEnv |-> minVersionEnv]
applyMinVersionEnvVarSkipInit(podSpec, minVersionEnv) ==
  [podSpec |-> [podSpec EXCEPT
                  !.Containers = MergeContainers(podSpec.Containers, minVersionEnv)],
   minVersionEnv |-> minVersionEnv]
applyMinVersionEnvVarSwapped(podSpec, minVersionEnv) ==
  [podSpec |-> podSpec,
   minVersionEnv |->
     IF podSpec.Containers = <<>> THEN minVersionEnv
     ELSE mergeEnv(podSpec.Containers[1].Env, minVersionEnv)]
applyMinVersionEnvVar(podSpec, minVersionEnv) ==
  [podSpec |-> [Containers |-> MergeContainers(podSpec.Containers, minVersionEnv),
                InitContainers |-> MergeContainers(podSpec.InitContainers, minVersionEnv)],
   minVersionEnv |-> minVersionEnv]

\* scheme.Scheme.Convert(u, typed, nil): fails on content that does not fit
\* the typed shape; a missing or null timestamp and a missing or empty
\* status both decode to the zero value
ConvertToTyped(doc, type) ==
  [ok |-> doc.valid,
   obj |-> [type |-> type, name |-> doc.name, namespace |-> doc.namespace,
            CreationTimestamp |->
              IF doc.creationTimestamp \in {"absent", "null"}
                THEN "zero" ELSE doc.creationTimestamp,
            Status |-> "zero",
            PodSpec |-> doc.template]]

\* scheme.Scheme.Convert(typed, u, nil): replaces the content of u by the
\* encoding of the typed object; zero-valued struct fields are written out
\* (a zero timestamp as null, a zero status as the empty object)
ConvertToUnstructured(obj) ==
  [kind |-> obj.type, name |-> obj.name, namespace |-> obj.namespace,
   creationTimestamp |->
     IF obj.CreationTimestamp = "zero" THEN "null" ELSE obj.CreationTimestamp,
   status |-> "empty", valid |-> TRUE, template |-> obj.PodSpec]

\* u.SetCreationTimestamp(metav1.Time{}): the zero time removes the field
SetCreationTimestampKeep(doc) == doc
SetCreationTimestamp(doc) == [doc EXCEPT !.creationTimestamp = "absent"]

\* hasEnv of the tests: the first entry named name decides
hasEnv(envs, name, value) ==
  /\ FirstIndex(envs, name) > 0
  /\ envs[FirstIndex(envs, name)].Value = value

\* ------------------------------------------------------------------- state
VARIABLES
  env,            \* os environment: value of KUBERNETES_MIN_VERSION
  transformer,    \* "none" before the factory ran, else the closure returned
  minVersionEnv,  \* the override list captured by the closure
  envAtBuild,     \* history: the environment value when the factory ran
  u,              \* per call site: the unstructured document
  u0,             \* history: the document as passed to the current call
  typed,          \* per call site: the call's local typed object
  pc,             \* per call site: position in the closure
  results         \* per call site: the values returned so far

vars == <<env, transformer, minVersionEnv, envAtBuild, u, u0, typed, pc,
          results>>

Slots == DOMAIN pc

InitWith(slots, docs) ==
  /\ env \in EnvValues
  /\ transformer = "none"
  /\ minVersionEnv = <<>>
  /\ envAtBuild = "none"
  /\ u \in [slots -> docs]
  /\ u0 = u
  /\ typed = [d \in slots |-> NilTyped]
  /\ pc = [d \in slots |-> "idle"]
  /\ results = [d \in slots |-> <<>>]

Init == InitWith({1}, Documents(MaxContainers, MaxEntries))

\* the concurrent specification varies what a call branches on or shares:
\* the kind, whether the document decodes, and the env lists
Size(doc) ==
  Len(doc.template.Containers) + Len(doc.template.InitContainers)
  + Entries([i \in 1..Len(doc.template.Containers) |->
               doc.template.Containers[i].Env])
  + Entries([i \in 1..Len(doc.template.InitContainers) |->
               doc.template.InitContainers[i].Env])

\* one kind of the switch and one outside it; only documents of the former
\* vary in their pod template
ConcDocuments ==
  { doc \in Documents(MaxContainers, MaxEntries) :
      /\ doc.kind \in {"Deployment", "ConfigMap"}
      /\ doc.kind = "Deployment" \/ doc.template = EmptyPodSpec
      /\ doc.creationTimestamp = "2026-01-01T00:00:00Z"
      /\ doc.status = "absent"
      /\ Size(doc) <= ConcSize }

InitConc == InitWith({1, 2}, ConcDocuments)

\* ----------------------------------------------------------------- actions
\* the environment changes (t.Setenv, or anything else in the process)
Setenv ==
  /\ \E v \in EnvValues \ {env} : env' = v
  /\ UNCHANGED <<transformer, minVersionEnv, envAtBuild, u, u0, typed, pc,
                 results>>

\* KubernetesMinVersionTransform()
Build ==
  /\ transformer = "none"
  /\ transformer' = KubernetesMinVersionTransform(env).closure
  /\ minVersionEnv' = KubernetesMinVersionTransform(env).minVersionEnv
  /\ envAtBuild' = env
  /\ UNCHANGED <<env, u, u0, typed, pc, results>>

\* the pipeline calls the transformer on a document again on a later pass
CallLimit == IF Cardinality(Slots) = 1 THEN MaxCalls ELSE ConcCalls

CanCall(d) ==
  /\ pc[d] \in {"idle", "returned"}
  /\ Len(results[d]) < CallLimit

Begin(d) == u0' = [u0 EXCEPT ![d] = u[d]]

Return(d, r) ==
  /\ pc' = [pc EXCEPT ![d] = "returned"]
  /\ results' = [results EXCEPT ![d] = Append(@, r)]

\* the closure returned when the override is disabled
CallNoop(d) ==
  /\ transformer = "noop"
  /\ CanCall(d)
  /\ Begin(d)
  /\ Return(d, "nil")
  /\ UNCHANGED <<env, transformer, minVersionEnv, envAtBuild, u, typed>>

\* the closure returned when the override is set: the switch on the kind
CallInject(d) ==
  /\ transformer = "inject"
  /\ CanCall(d)
  /\ Begin(d)
  /\ IF GetKind(u[d]) \in SupportedKinds
       THEN /\ pc' = [pc EXCEPT ![d] = "convertIn"]
            /\ UNCHANGED results
       ELSE Return(d, "nil")
  /\ UNCHANGED <<env, transformer, minVersionEnv, envAtBuild, u, typed>>

\* scheme.Scheme.Convert(u, typed, nil) of the matched case
ConvertIn(d) ==
  /\ pc[d] = "convertIn"
  /\ LET r == ConvertToTyped(u[d], GetKind(u[d])) IN
       IF r.ok
         THEN /\ typed' = [typed EXCEPT ![d] = r.obj]
              /\ pc' = [pc EXCEPT ![d] = "apply"]
              /\ UNCHANGED results
         ELSE /\ Return(d, "err")
              /\ UNCHANGED typed
  /\ UNCHANGED <<env, transformer, minVersionEnv, envAtBuild, u, u0>>

ApplyRereadsEnv(d) ==
  /\ pc[d] = "apply"
  /\ LET r == applyMinVersionEnvVar(typed[d].PodSpec, MinVersionEnv(env)) IN
       typed' = [typed EXCEPT ![d].PodSpec = r.podSpec]
  /\ pc' = [pc EXCEPT ![d] = "convertOut"]
  /\ UNCHANGED <<env, transformer, minVersionEnv, envAtBuild, u, u0, results>>

\* applyMinVersionEnvVar(podSpec, minVersionEnv)
Apply(d) ==
  /\ pc[d] = "apply"
  /\ LET r == applyMinVersionEnvVar(typed[d].PodSpec, minVersionEnv) IN
       /\ typed' = [typed EXCEPT ![d].PodSpec = r.podSpec]
       /\ minVersionEnv' = r.minVersionEnv
  /\ pc' = [pc EXCEPT ![d] = "convertOut"]
  /\ UNCHANGED <<env, transformer, envAtBuild, u, u0, results>>

ConvertOutWritesOnError(d) ==
  /\ pc[d] = "convertOut"
  /\ u' = [u EXCEPT ![d] = ConvertToUnstructured(typed[d])]
  /\ \E ok \in BOOLEAN :
       IF ok
         THEN /\ pc' = [pc EXCEPT ![d] = "setTimestamp"]
              /\ UNCHANGED results
         ELSE Return(d, "err")
  /\ UNCHANGED <<env, transformer, minVersionEnv, envAtBuild, u0, typed>>

\* scheme.Scheme.Convert(typed, u, nil): on an error u is not written
ConvertOut(d) ==
  /\ pc[d] = "convertOut"
  /\ \E ok \in BOOLEAN :
       IF ok
         THEN /\ u' = [u EXCEPT ![d] = ConvertToUnstructured(typed[d])]
              /\ pc' = [pc EXCEPT ![d] = "setTimestamp"]
              /\ UNCHANGED results
         ELSE /\ Return(d, "err")
              /\ UNCHANGED u
  /\ UNCHANGED <<env, transformer, minVersionEnv, envAtBuild, u0, typed>>

\* u.SetCreationTimestamp(metav1.Time{}); return nil
Finish(d) ==
  /\ pc[d] = "setTimestamp"
  /\ u' = [u EXCEPT ![d] = SetCreationTimestamp(u[d])]
  /\ Return(d, "nil")
  /\ UNCHANGED <<env, transformer, minVersionEnv, envAtBuild, u0, typed>>

Next ==
  \/ Setenv
  \/ Build
  \/ \E d \in Slots : CallNoop(d)
  \/ \E d \in Slots : CallInject(d)
  \/ \E d \in Slots : ConvertIn(d)
  \/ \E d \in Slots : Apply(d)
  \/ \E d \in Slots : ConvertOut(d)
  \/ \E d \in Slots : Finish(d)

Spec == Init /\ [][Next]_vars

SpecConc == InitConc /\ [][Next]_vars

\* ---------------------------------------------------------- claim helpers
WorkloadKinds == {"Deployment", "StatefulSet", "DaemonSet", "Job"}

Returned(d) == pc[d] = "returned" /\ results[d] # <<>>
LastResult(d) == results[d][Len(results[d])]

\* the factory ran while the variable held a non-empty value
BuiltEnabled == envAtBuild \notin {"none", ""}
BuiltDisabled == envAtBuild = ""

OverrideEntry(v) == [Name |-> KubernetesMinVersionKey, Value |-> v]
HasKey(envs) == \E j \in 1..Len(envs) : envs[j].Name = KubernetesMinVersionKey
IsOther(e) == e.Name # KubernetesMinVersionKey
IsKey(e) == e.Name = KubernetesMinVersionKey
AllContainers(p) == p.Containers \o p.InitContainers

SameContainerShape(p, q) ==
  /\ Len(p.Containers) = Len(q.Containers)
  /\ Len(p.InitContainers) = Len(q.InitContainers)
  /\ \A i \in 1..Len(p.Containers) : p.Containers[i].Name = q.Containers[i].Name
  /\ \A i \in 1..Len(p.InitContainers) :
       p.InitContainers[i].Name = q.InitContainers[i].Name

\* a successful call of the injecting closure on a workload document
InjectedOk(d) ==
  /\ BuiltEnabled
  /\ Returned(d)
  /\ LastResult(d) = "nil"
  /\ u0[d].kind \in WorkloadKinds

\* ------------------------------------------------------------------ claims

\* C1: after a call of a transformer built with a non-empty value V that
\* returns nil on a Deployment, StatefulSet, DaemonSet or Job that decodes,
\* every container and every init container is still there and the first
\* entry of its env list named with the override key has value V.
C1_EveryContainerHasOverride ==
  \A d \in Slots :
    InjectedOk(d) /\ u0[d].valid =>
      /\ SameContainerShape(u[d].template, u0[d].template)
      /\ \A i \in 1..Len(AllContainers(u[d].template)) :
           hasEnv(AllContainers(u[d].template)[i].Env,
                  KubernetesMinVersionKey, envAtBuild)

\* a container without env list, one with a stale value and one with only
\* other names, regular and init, all carry V after the call
C1_Witness ==
  \E d \in Slots :
    /\ InjectedOk(d)
    /\ Len(u0[d].template.Containers) >= 1
    /\ Len(u0[d].template.InitContainers) >= 1
    /\ \E i \in 1..Len(AllContainers(u0[d].template)) :
         AllContainers(u0[d].template)[i].Env = <<>>
    /\ \E i \in 1..Len(AllContainers(u0[d].template)) :
         LET e == AllContainers(u0[d].template)[i].Env IN
           e # <<>> /\ (HasKey(e) \/ \A j \in 1..Len(e) : IsOther(e[j]))
    /\ \A i \in 1..Len(AllContainers(u[d].template)) :
         hasEnv(AllContainers(u[d].template)[i].Env,
                KubernetesMinVersionKey, envAtBuild)

\* C2: a transformer built with an empty or absent value is a strict no-op:
\* every call on every document returns nil, never enters the conversion
\* steps and leaves the document identical to the one passed in.
C2_DisabledIsNoop ==
  BuiltDisabled =>
    \A d \in Slots :
      /\ pc[d] \in {"idle", "returned"}
      /\ u[d] = u0[d]
      /\ typed[d] = NilTyped
      /\ \A k \in 1..Len(results[d]) : results[d][k] = "nil"

C2_Witness ==
  /\ BuiltDisabled
  /\ \E d \in Slots :
       /\ Returned(d)
       /\ u[d].kind \in WorkloadKinds
       /\ u[d].creationTimestamp = "2026-01-01T00:00:00Z"
       /\ u[d].status = "absent"
       /\ Len(u[d].template.Containers) >= 1
       /\ \A i \in 1..Len(u[d].template.Containers) :
            ~HasKey(u[d].template.Containers[i].Env)

\* C3: idempotence: when a call of the injecting closure on a workload
\* document returned nil, the next call on that document leaves it exactly
\* as the first one left it.
C3_Idempotent ==
  \A d \in Slots :
    /\ BuiltEnabled
    /\ Returned(d)
    /\ Len(results[d]) >= 2
    /\ results[d][Len(results[d]) - 1] = "nil"
    /\ u0[d].kind \in WorkloadKinds
    => u[d] = u0[d]

C3_Witness ==
  \E d \in Slots :
    /\ InjectedOk(d)
    /\ Len(results[d]) >= 2
    /\ results[d][Len(results[d]) - 1] = "nil"
    /\ Len(u[d].template.Containers) >= 1
    /\ Len(u[d].template.InitContainers) >= 1
    /\ u[d] = u0[d]

\* C4: the merge replaces the value of the first entry named with the
\* override key at its position, keeping length and order, and appends the
\* override entry at the end when the key is absent; an empty list becomes
\* the one override entry.
MergedAsSpecified(old, new, v) ==
  /\ HasKey(old) =>
       /\ Len(new) = Len(old)
       /\ \A j \in 1..Len(old) :
            new[j] = IF j = FirstIndex(old, KubernetesMinVersionKey)
                       THEN OverrideEntry(v) ELSE old[j]
  /\ ~HasKey(old) => new = Append(old, OverrideEntry(v))
  /\ old = <<>> => new = <<OverrideEntry(v)>>

C4_ReplaceInPlaceOrAppend ==
  \A d \in Slots :
    /\ (BuiltEnabled /\ pc[d] = "convertOut" =>
          /\ SameContainerShape(typed[d].PodSpec, u0[d].template)
          /\ \A i \in 1..Len(AllContainers(u0[d].template)) :
               MergedAsSpecified(AllContainers(u0[d].template)[i].Env,
                                 AllContainers(typed[d].PodSpec)[i].Env,
                                 envAtBuild))
    /\ (InjectedOk(d) =>
          /\ SameContainerShape(u[d].template, u0[d].template)
          /\ \A i \in 1..Len(AllContainers(u0[d].template)) :
               MergedAsSpecified(AllContainers(u0[d].template)[i].Env,
                                 AllContainers(u[d].template)[i].Env,
                                 envAtBuild))

\* [{EXISTING,1},{KEY,v1.20.0}] became [{EXISTING,1},{KEY,v1.25.0}]
C4_Witness ==
  \E d \in Slots :
    /\ InjectedOk(d)
    /\ envAtBuild = "v1.25.0"
    /\ Len(u0[d].template.Containers) >= 1
    /\ u0[d].template.Containers[1].Env =
         << [Name |-> "EXISTING", Value |-> "1"],
            [Name |-> KubernetesMinVersionKey, Value |-> "v1.20.0"] >>
    /\ u[d].template.Containers[1].Env =
         << [Name |-> "EXISTING", Value |-> "1"],
            [Name |-> KubernetesMinVersionKey, Value |-> "v1.25.0"] >>

\* C5: non-destructive merge: after a call of the injecting closure on a
\* workload document the entries named otherwise are the same, in the same
\* order, no entry is removed, and each env list has grown by at most one
\* entry; after a call that returned nil it has grown by exactly one iff the
\* override key was absent.
NonDestructive(old, new) ==
  /\ SelectSeq(new, IsOther) = SelectSeq(old, IsOther)
  /\ Len(SelectSeq(new, IsKey)) >= Len(SelectSeq(old, IsKey))
  /\ Len(new) \in {Len(old), Len(old) + 1}

C5_NonDestructiveMerge ==
  \A d \in Slots :
    BuiltEnabled /\ Returned(d) /\ u0[d].kind \in WorkloadKinds =>
      /\ SameContainerShape(u[d].template, u0[d].template)
      /\ \A i \in 1..Len(AllContainers(u0[d].template)) :
           LET old == AllContainers(u0[d].template)[i].Env
               new == AllContainers(u[d].template)[i].Env
           IN /\ NonDestructive(old, new)
              /\ LastResult(d) = "nil" =>
                   (Len(new) = Len(old) + 1 <=> ~HasKey(old))

\* a list of other names grew by the override entry, a list with the key
\* kept its length
C5_Witness ==
  \E d \in Slots :
    /\ InjectedOk(d)
    /\ \E i \in 1..Len(AllContainers(u0[d].template)) :
         LET old == AllContainers(u0[d].template)[i].Env
             new == AllContainers(u[d].template)[i].Env
         IN old # <<>> /\ ~HasKey(old) /\ Len(new) = Len(old) + 1
                       /\ SubSeq(new, 1, Len(old)) = old
    /\ \E i \in 1..Len(AllContainers(u0[d].template)) :
         LET old == AllContainers(u0[d].template)[i].Env
             new == AllContainers(u[d].template)[i].Env
         IN HasKey(old) /\ Len(new) = Len(old)

\* C6: a document of a kind outside the four is returned unchanged with
\* nil whatever the override: no conversion step is entered, no typed object
\* is made, no env list and no timestamp changes.
C6_OtherKindUntouched ==
  \A d \in Slots :
    u0[d].kind \notin WorkloadKinds =>
      /\ pc[d] \in {"idle", "returned"}
      /\ u[d] = u0[d]
      /\ typed[d] = NilTyped
      /\ \A k \in 1..Len(results[d]) : results[d][k] = "nil"

C6_Witness ==
  \E d \in Slots :
    /\ BuiltEnabled
    /\ Returned(d)
    /\ u0[d].kind = "ConfigMap"
    /\ u[d].creationTimestamp = "2026-01-01T00:00:00Z"
    /\ Len(u[d].template.Containers) >= 1
    /\ ~HasKey(u[d].template.Containers[1].Env)

\* C7: when a call of the injecting closure returns an error the document
\* is exactly as it was passed in; a document that does not decode never
\* reaches the merge, the encode or the timestamp reset.
C7_ErrorLeavesDocument ==
  \A d \in Slots :
    /\ (BuiltEnabled /\ Returned(d) /\ LastResult(d) = "err" => u[d] = u0[d])
    /\ (~u0[d].valid =>
          /\ pc[d] \notin {"apply", "convertOut", "setTimestamp"}
          /\ typed[d] = NilTyped
          /\ u[d] = u0[d])

\* the encode failed after the merge had changed the typed object, on a
\* document that carried a timestamp
C7_Witness ==
  \E d \in Slots :
    /\ BuiltEnabled
    /\ Returned(d)
    /\ LastResult(d) = "err"
    /\ u0[d].valid
    /\ typed[d].PodSpec # u0[d].template
    /\ u[d].creationTimestamp = "2026-01-01T00:00:00Z"
    /\ u[d].status = "absent"

\* C8: the override is read once, by the factory: whatever the environment
\* holds later, the closure and the captured entry are those of the value
\* read then; a transformer built on the empty value never changes a
\* document, one built on V injects V.
C8_StickyOverride ==
  envAtBuild # "none" =>
    /\ transformer = (IF envAtBuild = "" THEN "noop" ELSE "inject")
    /\ minVersionEnv =
         (IF envAtBuild = "" THEN <<>> ELSE <<OverrideEntry(envAtBuild)>>)
    /\ \A d \in Slots :
         /\ envAtBuild = "" => u[d] = u0[d] /\ pc[d] \in {"idle", "returned"}
         /\ BuiltEnabled /\ pc[d] \in {"convertOut", "setTimestamp"} =>
              \A i \in 1..Len(AllContainers(typed[d].PodSpec)) :
                hasEnv(AllContainers(typed[d].PodSpec)[i].Env,
                       KubernetesMinVersionKey, envAtBuild)
         /\ InjectedOk(d) /\ u0[d].valid =>
              \A i \in 1..Len(AllContainers(u[d].template)) :
                hasEnv(AllContainers(u[d].template)[i].Env,
                       KubernetesMinVersionKey, envAtBuild)

\* the environment holds another non-empty value while the merge of a call
\* has just written the captured one
C8_Witness ==
  \E d \in Slots :
    /\ BuiltEnabled
    /\ env \notin {"", envAtBuild}
    /\ pc[d] = "convertOut"
    /\ Len(results[d]) >= 1
    /\ Len(AllContainers(typed[d].PodSpec)) >= 1
    /\ \A i \in 1..Len(AllContainers(typed[d].PodSpec)) :
         hasEnv(AllContainers(typed[d].PodSpec)[i].Env,
                KubernetesMinVersionKey, envAtBuild)

\* C9 as stated: after a successful call of the injecting closure on a
\* workload document nothing differs from the input but the env lists and
\* the creation timestamp, which is unset.
C9_OnlyEnvAndTimestamp ==
  \A d \in Slots :
    InjectedOk(d) =>
      /\ u[d].kind = u0[d].kind
      /\ u[d].name = u0[d].name
      /\ u[d].namespace = u0[d].namespace
      /\ u[d].valid = u0[d].valid
      /\ u[d].status = u0[d].status
      /\ u[d].creationTimestamp = "absent"
      /\ SameContainerShape(u[d].template, u0[d].template)

\* C9 amended: nothing differs but the env lists, the creation timestamp,
\* which is unset, and the zero-valued defaults the typed round trip writes
\* out: a status that was absent is the empty object.
C9_OnlyEnvTimestampAndDefaults ==
  \A d \in Slots :
    InjectedOk(d) =>
      /\ u[d].kind = u0[d].kind
      /\ u[d].name = u0[d].name
      /\ u[d].namespace = u0[d].namespace
      /\ u[d].valid = u0[d].valid
      /\ u[d].status = "empty"
      /\ u[d].creationTimestamp = "absent"
      /\ SameContainerShape(u[d].template, u0[d].template)

C9_Witness ==
  \E d \in Slots :
    /\ InjectedOk(d)
    /\ u0[d].creationTimestamp = "2026-01-01T00:00:00Z"
    /\ u0[d].status = "absent"
    /\ u[d].creationTimestamp = "absent"
    /\ Len(u[d].template.Containers) >= 1

\* C10: calls share nothing they change: the captured override list is the
\* one the factory built, whatever calls have run or are running, and every
\* returned call has the result and the document that the call alone
\* produces on the document it was given.
ExpectedEnv(old, v) ==
  IF HasKey(old)
    THEN [j \in 1..Len(old) |->
            IF j = FirstIndex(old, KubernetesMinVersionKey)
              THEN OverrideEntry(v) ELSE old[j]]
    ELSE Append(old, OverrideEntry(v))

ExpectedContainers(cs, v) ==
  [i \in 1..Len(cs) |-> [Name |-> cs[i].Name, Env |-> ExpectedEnv(cs[i].Env, v)]]

ExpectedDocument(doc, v) ==
  [kind |-> doc.kind, name |-> doc.name, namespace |-> doc.namespace,
   creationTimestamp |-> "absent", status |-> "empty", valid |-> TRUE,
   template |->
     [Containers |-> ExpectedContainers(doc.template.Containers, v),
      InitContainers |-> ExpectedContainers(doc.template.InitContainers, v)]]

AloneOutcomes(doc, v) ==
  IF v = "" \/ doc.kind \notin WorkloadKinds THEN {<<"nil", doc>>}
  ELSE IF ~doc.valid THEN {<<"err", doc>>}
  ELSE {<<"err", doc>>, <<"nil", ExpectedDocument(doc, v)>>}

C10_CallsIndependent ==
  envAtBuild # "none" =>
    /\ minVersionEnv =
         (IF envAtBuild = "" THEN <<>> ELSE <<OverrideEntry(envAtBuild)>>)
    /\ \A d \in Slots :
         Returned(d) => <<LastResult(d), u[d]>> \in AloneOutcomes(u0[d], envAtBuild)

\* one call failed in its encode and the call on the other document
\* returned nil with the document the call alone produces
C10_Witness ==
  \E d1 \in Slots : \E d2 \in Slots \ {d1} :
    /\ BuiltEnabled
    /\ Returned(d1) /\ LastResult(d1) = "err" /\ u0[d1].valid
    /\ Len(u0[d1].template.Containers) >= 1
    /\ InjectedOk(d2) /\ u0[d2].valid
    /\ u0[d2].template.InitContainers # <<>>
    /\ u[d2] = ExpectedDocument(u0[d2], envAtBuild)
====
